---- MODULE Spec2Model ----
(***************************************************************************)
(* md2pdf.py: the lifecycle of the disposable virtual environment          *)
(* .md2pdf_venv across one run of main(), with SIGINT delivered at any     *)
(* point.  The Python control state is a stack of frames: frame 1 is       *)
(* main(), every frame above it is one invocation of signal_handler that   *)
(* interrupted the frame below.  Only the top frame executes.  A child     *)
(* process started by run_command runs on its own beside the stack.        *)
(***************************************************************************)
EXTENDS Naturals, Sequences, FiniteSets

VARIABLES
    stack,             \* frames [pc, ret]; stack[1] is main, the rest are signal_handler
    cleanup_required,  \* global, line 54
    venv_created,      \* global, line 55
    dir,               \* what is at VENV_DIR: "none", "stale", "partial", "mixed", "venv"
    dir0,              \* what was at VENV_DIR when the process started
    pdf,               \* what is at the output path: "none", "old", "partial", "new"
    script,            \* the temporary conversion script exists
    child,             \* the subprocess of run_command: [cmd, st]
    pkg,               \* index into REQUIRED_PACKAGES of the install in progress
    exc,               \* exception pending while convert's finally clause runs
    exitCode,          \* <<>> while the process runs, then <<status>>
    outcome,           \* what the main sequence ran into
    sigints,           \* SIGINTs delivered so far
    cleanupCalls,      \* calls of cleanup_environment so far
    rmAttempts,        \* shutil.rmtree calls made by cleanup_environment so far
    rmFailed,          \* a shutil.rmtree of cleanup_environment raised
    started,           \* subprocesses started so far
    pdf0,              \* what was at the output path when the process started
    answer,            \* the answer given to the overwrite prompt, "-" if not asked
    scriptsCreated,    \* temporary scripts created so far
    log,               \* provisioning and conversion steps begun: [step, st]
    doc                \* the conversion script's template and compose stage

vars == <<stack, cleanup_required, venv_created, dir, dir0, pdf, script, child,
          pkg, exc, exitCode, outcome, sigints, cleanupCalls, rmAttempts,
          rmFailed, started, pdf0, answer, scriptsCreated, log, doc>>

\* how many SIGINTs a run receives at most
MaxSigints == 2

\* len(REQUIRED_PACKAGES)
NumPackages == 2

\* lines 44-47
REQUIRED_PACKAGES == <<"weasyprint>=60.0", "markdown-it-py>=3.0.0">>

\* the compose stage is not being examined
NoDoc == <<>>

NoChild == [cmd |-> "none", st |-> "none"]
NoRet == "-"

Frame(p, r) == [pc |-> p, ret |-> r]
Top == stack[Len(stack)]
Main == stack[1]
InMain(p) == Len(stack) = 1 /\ Main.pc = p
Done == Main.pc = "done"

\* what the user may type at a prompt
Responses == {"y", "Y", "n", "N", "yes", "YES", ""}

\* bug variant of Lower: the answer is compared as typed
Lower_AsTyped(r) == r

\* str.lower() on the answers above
Lower(r) ==
    CASE r = "Y" -> "y" [] r = "N" -> "n" [] r = "YES" -> "yes" [] OTHER -> r

\* bug variant of ExitArg: the except clauses end without sys.exit(1)
ExitArg_ExceptReturns(site) ==
    CASE site \in {"continue_declined", "uncaught"} -> 1
      [] OTHER -> 0

\* bug variant of ExitArg: signal_handler ends with sys.exit(1)
ExitArg_HandlerOne(site) ==
    CASE site \in {"continue_declined", "except", "signal_handler", "uncaught"} -> 1
      [] OTHER -> 0

\* the argument of each sys.exit call, and 0 for main returning normally
ExitArg(site) ==
    CASE site = "usage" -> 0
      [] site = "overwrite_declined" -> 0
      [] site = "continue_declined" -> 1
      [] site = "except" -> 1
      [] site = "signal_handler" -> 0
      [] site = "uncaught" -> 1
      [] OTHER -> 0

\* bug variant of CleanupGuard: the early return is missing
CleanupGuard_NoGuard(cr, vc) == TRUE

\* the guard of cleanup_environment: TRUE when it goes on to the removal
CleanupGuard(cr, vc) == ~(~cr \/ ~vc)

\* the value cleanup_environment leaves in venv_created after a teardown
FlagAfterTeardown(vc) == vc

\* bug variant of MainCatches: the last clause is a bare except
MainCatches_BareExcept(kind) ==
    CASE kind \in {"FileNotFoundError", "PermissionError", "ValueError"} -> 1
      [] kind = "CalledProcessError" -> 2
      [] OTHER -> 3

\* which except clause of main handles an exception kind; 0 is none
MainCatches(kind) ==
    CASE kind \in {"FileNotFoundError", "PermissionError", "ValueError"} -> 1
      [] kind = "CalledProcessError" -> 2
      [] kind \in {"OSError", "Exception"} -> 3
      [] OTHER -> 0

\* bug variant of FlagAfterVenv: without line 180 the assignment is to a local
FlagAfterVenv_Local(vc) == vc

\* venv_created = True in create_virtual_environment, under its global statement
FlagAfterVenv(vc) == TRUE

Init ==
    /\ stack = <<Frame("argv", NoRet)>>
    /\ cleanup_required = FALSE
    /\ venv_created = FALSE
    /\ dir \in {"none", "stale"}
    /\ dir0 = dir
    /\ pdf \in {"none", "old"}
    /\ script = FALSE
    /\ child = NoChild
    /\ pkg = 1
    /\ exc = "none"
    /\ exitCode = <<>>
    /\ outcome = "none"
    /\ sigints = 0
    /\ cleanupCalls = 0
    /\ rmAttempts = 0
    /\ rmFailed = FALSE
    /\ started = 0
    /\ pdf0 = pdf
    /\ answer = "-"
    /\ scriptsCreated = 0
    /\ log = <<>>
    /\ doc = NoDoc

----------------------------------------------------------------------------
\* control transfer helpers

Goto(p) == stack' = [stack EXCEPT ![Len(stack)] = Frame(p, NoRet)]

\* a call of cleanup_environment from the top frame, returning to r
CallCleanup(r) ==
    /\ stack' = [stack EXCEPT ![Len(stack)] = Frame("cu_guard", r)]
    /\ cleanupCalls' = cleanupCalls + 1

\* the top frame moves on inside cleanup_environment, keeping its return point
Goto2(p) == stack' = [stack EXCEPT ![Len(stack)].pc = p]

Return == stack' = [stack EXCEPT ![Len(stack)] = Frame(Top.ret, NoRet)]

\* the process ends with this status
Exit(code) ==
    /\ stack' = <<Frame("done", NoRet)>>
    /\ exitCode' = <<code>>

\* is main's frame inside its try block (lines 450-490)?  The except clauses
\* and the usage exit are outside it.
InMainTry(f) == f.pc \notin {"argv", "exc_exit", "done"} /\ f.ret # "exc_exit"

\* an exception reaches main's try statement (lines 492-506): a clause that
\* matches calls cleanup_environment and then sys.exit(1); otherwise the
\* exception leaves main and the process ends with `code`
Raise(kind, code) ==
    IF MainCatches(kind) # 0
    THEN /\ stack' = <<Frame("cu_guard", "exc_exit")>>
         /\ cleanupCalls' = cleanupCalls + 1
         /\ UNCHANGED exitCode
    ELSE Exit(code) /\ UNCHANGED cleanupCalls

\* an error raised inside main's try block; uncaught, Python exits with 1
RaiseInMain(kind) == Raise(kind, ExitArg("uncaught"))

\* sys.exit(ExitArg(site)) called inside main's try block
SysExitInMain(site) == Raise("SystemExit", ExitArg(site))

StartChild(cmd) ==
    /\ child' = [cmd |-> cmd, st |-> "running"]
    /\ started' = started + 1

----------------------------------------------------------------------------
\* main(), lines 433-506

\* lines 441-446: wrong argument count or -h/--help prints usage, sys.exit(0)
CheckArgs ==
    /\ InMain("argv")
    /\ \E ok \in BOOLEAN :
         IF ok
         THEN Goto("validate") /\ UNCHANGED <<exitCode, outcome>>
         ELSE Exit(ExitArg("usage")) /\ outcome' = "help"
    /\ UNCHANGED <<cleanup_required, venv_created, dir, dir0, pdf0, answer, scriptsCreated, log, doc, pdf, script, child,
                   pkg, exc, sigints, cleanupCalls, rmAttempts, rmFailed, started>>

\* line 453, validate_markdown_file raising or returning the path
Validate ==
    /\ InMain("validate")
    /\ \E r \in {"ok", "FileNotFoundError", "ValueError", "PermissionError"} :
         IF r = "ok"
         THEN Goto("derive") /\ UNCHANGED <<exitCode, outcome, cleanupCalls>>
         ELSE RaiseInMain(r) /\ outcome' = "input_error"
    /\ UNCHANGED <<cleanup_required, venv_created, dir, dir0, pdf0, answer, scriptsCreated, log, doc, pdf, script, child,
                   pkg, exc, sigints, rmAttempts, rmFailed, started>>

\* lines 454-456: the output path and whether something is there
Derive ==
    /\ InMain("derive")
    /\ Goto(IF pdf # "none" THEN "ask_overwrite" ELSE "sys_check")
    /\ UNCHANGED <<cleanup_required, venv_created, dir, dir0, pdf0, answer, scriptsCreated, log, doc, pdf, script, child,
                   pkg, exc, exitCode, outcome, sigints, cleanupCalls, rmAttempts,
                   rmFailed, started>>

\* lines 457-462: the overwrite prompt
AskOverwrite ==
    /\ InMain("ask_overwrite")
    /\ \E response \in Responses :
         /\ answer' = response
         /\ IF Lower(response) # "y"
            THEN SysExitInMain("overwrite_declined") /\ outcome' = "overwrite_declined"
            ELSE Goto("sys_check") /\ UNCHANGED <<exitCode, outcome, cleanupCalls>>
    /\ UNCHANGED <<cleanup_required, venv_created, dir, dir0, pdf0, scriptsCreated, log, doc, pdf, script, child,
                   pkg, exc, sigints, rmAttempts, rmFailed, started>>

\* lines 136-170: on Linux dpkg is run (a missing dpkg is caught, line 149);
\* elsewhere only advice is printed
SysCheck ==
    /\ InMain("sys_check")
    /\ \E platform \in {"linux", "darwin", "win32"}, found \in BOOLEAN :
         IF platform = "linux" /\ found
         THEN Goto("wait_dpkg") /\ StartChild("dpkg")
         ELSE Goto("ask_continue") /\ UNCHANGED <<child, started>>
    /\ UNCHANGED <<cleanup_required, venv_created, dir, dir0, pdf0, answer, scriptsCreated, log, doc, pdf, script,
                   pkg, exc, exitCode, outcome, sigints, cleanupCalls, rmAttempts,
                   rmFailed>>

\* lines 146-151: dpkg's result
WaitDpkg ==
    /\ InMain("wait_dpkg")
    /\ child.st \in {"ok", "fail"}
    /\ \E installed \in BOOLEAN :
         Goto(IF child.st = "ok" /\ installed THEN "arm" ELSE "ask_continue")
    /\ child' = NoChild
    /\ UNCHANGED <<cleanup_required, venv_created, dir, dir0, pdf0, answer, scriptsCreated, log, doc, pdf, script,
                   pkg, exc, exitCode, outcome, sigints, cleanupCalls, rmAttempts,
                   rmFailed, started>>

\* lines 172-175: continue anyway?
AskContinue ==
    /\ InMain("ask_continue")
    /\ \E response \in Responses :
         IF Lower(response) # "y"
         THEN SysExitInMain("continue_declined") /\ outcome' = "continue_declined"
         ELSE Goto("arm") /\ UNCHANGED <<exitCode, outcome, cleanupCalls>>
    /\ UNCHANGED <<cleanup_required, venv_created, dir, dir0, pdf0, answer, scriptsCreated, log, doc, pdf, script, child,
                   pkg, exc, sigints, rmAttempts, rmFailed, started>>

\* bug variant of FlagAfterArm: without line 435 the assignment is to a local
FlagAfterArm_Local(cr) == cr

\* cleanup_required = True in main, under its global statement (line 435)
FlagAfterArm(cr) == TRUE

\* line 469
Arm ==
    /\ InMain("arm")
    /\ cleanup_required' = FlagAfterArm(cleanup_required)
    /\ Goto("cve_exists")
    /\ UNCHANGED <<venv_created, dir, dir0, pdf0, answer, scriptsCreated, log, doc, pdf, script, child,
                   pkg, exc, exitCode, outcome, sigints, cleanupCalls, rmAttempts,
                   rmFailed, started>>

----------------------------------------------------------------------------
\* create_virtual_environment(), lines 178-194

\* bug variant of Raises: run_command called with check=False
Raises_Unchecked(st) == FALSE

\* run_command, lines 112-121: with check=True subprocess.run raises
\* CalledProcessError on a non-zero status, and run_command re-raises it
Raises(st) == st # "ok"

\* a step begins, a step ends: the record of what provisioning has done
LogStart(step) == log' = Append(log, [step |-> step, st |-> "begun"])
LogEnd(st) == log' = [log EXCEPT ![Len(log)].st = st]

\* bug variant of VenvDirExists: create_virtual_environment does not look
VenvDirExists_NoLook(d) == FALSE

\* line 181: os.path.exists(VENV_DIR)
VenvDirExists(d) == d # "none"

\* line 181
CveExists ==
    /\ InMain("cve_exists")
    /\ Goto(IF VenvDirExists(dir) THEN "cve_rmtree" ELSE "run_venv")
    /\ UNCHANGED <<cleanup_required, venv_created, dir, dir0, pdf0, answer, scriptsCreated, log, doc, pdf, script, child,
                   pkg, exc, exitCode, outcome, sigints, cleanupCalls, rmAttempts,
                   rmFailed, started>>

\* lines 183-188: the stale directory is removed, or the OSError is re-raised
CveRmtree ==
    /\ InMain("cve_rmtree")
    /\ \E r \in {"ok", "PermissionError", "OSError"} :
         IF r = "ok"
         THEN /\ dir' = "none"
              /\ log' = Append(log, [step |-> "rmtree", st |-> "ok"])
              /\ Goto("run_venv")
              /\ UNCHANGED <<exitCode, outcome, cleanupCalls>>
         ELSE /\ RaiseInMain(r)
              /\ log' = Append(log, [step |-> "rmtree", st |-> "fail"])
              /\ outcome' = "stale_rm_error"
              /\ UNCHANGED dir
    /\ UNCHANGED <<cleanup_required, venv_created, dir0, pdf0, answer, scriptsCreated, doc, pdf, script, child,
                   pkg, exc, sigints, rmAttempts, rmFailed, started>>

\* lines 189-192: python -m venv is started
RunVenv ==
    /\ InMain("run_venv")
    /\ StartChild("venv")
    /\ Goto("wait_venv")
    /\ LogStart("venv")
    /\ UNCHANGED <<cleanup_required, venv_created, dir, dir0, pdf0, answer, scriptsCreated, doc, pdf, script,
                   pkg, exc, exitCode, outcome, sigints, cleanupCalls, rmAttempts,
                   rmFailed>>

\* subprocess.run returns, or raises CalledProcessError (check=True)
WaitVenv ==
    /\ InMain("wait_venv")
    /\ child.st \in {"ok", "fail"}
    /\ child' = NoChild
    /\ IF ~Raises(child.st)
       THEN Goto("set_created") /\ UNCHANGED <<exitCode, outcome, cleanupCalls>>
       ELSE RaiseInMain("CalledProcessError") /\ outcome' = "venv_error"
    /\ LogEnd(child.st)
    /\ UNCHANGED <<cleanup_required, venv_created, dir, dir0, pdf0, answer, scriptsCreated, doc, pdf, script,
                   pkg, exc, sigints, rmAttempts, rmFailed, started>>

\* line 193
SetCreated ==
    /\ InMain("set_created")
    /\ venv_created' = FlagAfterVenv(venv_created)
    /\ Goto("run_pip")
    /\ UNCHANGED <<cleanup_required, dir, dir0, pdf0, answer, scriptsCreated, log, doc, pdf, script, child,
                   pkg, exc, exitCode, outcome, sigints, cleanupCalls, rmAttempts,
                   rmFailed, started>>

----------------------------------------------------------------------------
\* install_dependencies(), lines 212-224

\* lines 215-218
RunPip ==
    /\ InMain("run_pip")
    /\ StartChild("pip")
    /\ Goto("wait_pip")
    /\ LogStart("pip")
    /\ UNCHANGED <<cleanup_required, venv_created, dir, dir0, pdf0, answer, scriptsCreated, doc, pdf, script,
                   pkg, exc, exitCode, outcome, sigints, cleanupCalls, rmAttempts,
                   rmFailed>>

WaitPip ==
    /\ InMain("wait_pip")
    /\ child.st \in {"ok", "fail"}
    /\ child' = NoChild
    /\ IF ~Raises(child.st)
       THEN Goto("run_pkg") /\ UNCHANGED <<exitCode, outcome, cleanupCalls>>
       ELSE RaiseInMain("CalledProcessError") /\ outcome' = "pip_error"
    /\ LogEnd(child.st)
    /\ UNCHANGED <<cleanup_required, venv_created, dir, dir0, pdf0, answer, scriptsCreated, doc, pdf, script,
                   pkg, exc, sigints, rmAttempts, rmFailed, started>>

\* lines 219-223: pip install REQUIRED_PACKAGES[pkg]
RunPkg ==
    /\ InMain("run_pkg")
    /\ StartChild("pkg")
    /\ Goto("wait_pkg")
    /\ LogStart(REQUIRED_PACKAGES[pkg])
    /\ UNCHANGED <<cleanup_required, venv_created, dir, dir0, pdf0, answer, scriptsCreated, doc, pdf, script,
                   pkg, exc, exitCode, outcome, sigints, cleanupCalls, rmAttempts,
                   rmFailed>>

WaitPkg ==
    /\ InMain("wait_pkg")
    /\ child.st \in {"ok", "fail"}
    /\ child' = NoChild
    /\ IF ~Raises(child.st)
       THEN /\ IF pkg < NumPackages
               THEN Goto("run_pkg") /\ pkg' = pkg + 1
               ELSE Goto("mk_script") /\ UNCHANGED pkg
            /\ UNCHANGED <<exitCode, outcome, cleanupCalls>>
       ELSE /\ RaiseInMain("CalledProcessError")
            /\ outcome' = "pkg_error"
            /\ UNCHANGED pkg
    /\ LogEnd(child.st)
    /\ UNCHANGED <<cleanup_required, venv_created, dir, dir0, pdf0, answer, scriptsCreated, doc, pdf, script,
                   exc, sigints, rmAttempts, rmFailed, started>>

----------------------------------------------------------------------------
\* convert_markdown_to_pdf(), lines 397-411

\* bug variant of ScriptAfterFinally: the unlink follows run_command instead of
\* standing in a finally clause, so a raising run_command skips it
ScriptAfterFinally_NoFinally(s, e) == IF e = "none" THEN FALSE ELSE s

\* lines 408-411: os.unlink(temp_script_path) if the path exists, whatever
\* exception e is pending
ScriptAfterFinally(s, e) == FALSE

\* lines 398-400: the temporary script is written
MkScript ==
    /\ InMain("mk_script")
    /\ script' = TRUE
    /\ scriptsCreated' = scriptsCreated + 1
    /\ Goto("run_conv")
    /\ UNCHANGED <<cleanup_required, venv_created, dir, dir0, pdf0, answer, log, doc, pdf, child,
                   pkg, exc, exitCode, outcome, sigints, cleanupCalls, rmAttempts,
                   rmFailed, started>>

\* lines 402-407: the try block is entered and the venv's python is started
RunConv ==
    /\ InMain("run_conv")
    /\ StartChild("conv")
    /\ Goto("wait_conv")
    /\ LogStart("conv")
    /\ UNCHANGED <<cleanup_required, venv_created, dir, dir0, pdf0, answer, scriptsCreated, doc, pdf, script,
                   pkg, exc, exitCode, outcome, sigints, cleanupCalls, rmAttempts,
                   rmFailed>>

\* run_command returns or raises; either way the finally clause is next
WaitConv ==
    /\ InMain("wait_conv")
    /\ child.st \in {"ok", "fail"}
    /\ child' = NoChild
    /\ Goto("fin_unlink")
    /\ IF ~Raises(child.st)
       THEN UNCHANGED <<exc, outcome>>
       ELSE exc' = "CalledProcessError" /\ outcome' = "conv_error"
    /\ LogEnd(child.st)
    /\ UNCHANGED <<cleanup_required, venv_created, dir, dir0, pdf0, answer, scriptsCreated, doc, pdf, script,
                   pkg, exitCode, sigints, cleanupCalls, rmAttempts, rmFailed,
                   started>>

\* lines 408-411: the finally clause, then the pending exception goes on
FinUnlink ==
    /\ InMain("fin_unlink")
    /\ script' = ScriptAfterFinally(script, exc)
    /\ exc' = "none"
    /\ CASE exc = "none" -> Goto("step6") /\ UNCHANGED <<exitCode, cleanupCalls>>
         [] exc = "SystemExit" -> SysExitInMain("signal_handler")
         [] OTHER -> RaiseInMain(exc)
    /\ UNCHANGED <<cleanup_required, venv_created, dir, dir0, pdf0, answer, scriptsCreated, log, doc, pdf, child,
                   pkg, outcome, sigints, rmAttempts, rmFailed, started>>

----------------------------------------------------------------------------
\* main(), lines 483-506

\* line 485
Step6 ==
    /\ InMain("step6")
    /\ CallCleanup("report")
    /\ UNCHANGED <<cleanup_required, venv_created, dir, dir0, pdf0, answer, scriptsCreated, log, doc, pdf, script, child,
                   pkg, exc, exitCode, outcome, sigints, rmAttempts, rmFailed,
                   started>>

\* lines 488-490: the report; resolve() or stat() may raise, else main returns
Report ==
    /\ InMain("report")
    /\ \E r \in {"ok", "FileNotFoundError", "OSError"} :
         IF r = "ok" /\ pdf # "none"
         THEN Exit(ExitArg("return")) /\ outcome' = "success"
                                     /\ UNCHANGED cleanupCalls
         ELSE RaiseInMain(r) /\ outcome' = "report_error"
    /\ UNCHANGED <<cleanup_required, venv_created, dir, dir0, pdf0, answer, scriptsCreated, log, doc, pdf, script, child,
                   pkg, exc, sigints, rmAttempts, rmFailed, started>>

\* lines 495, 499, 506: sys.exit(1) after the except clause's cleanup
ExcExit ==
    /\ InMain("exc_exit")
    /\ Exit(ExitArg("except"))
    /\ UNCHANGED <<cleanup_required, venv_created, dir, dir0, pdf0, answer, scriptsCreated, log, doc, pdf, script, child,
                   pkg, exc, outcome, sigints, cleanupCalls, rmAttempts, rmFailed,
                   started>>

----------------------------------------------------------------------------
\* cleanup_environment(), lines 414-427, run by whichever frame is on top

InCleanup(p) == Top.pc = p /\ ~Done

\* lines 417-418: the guard
CuGuard ==
    /\ InCleanup("cu_guard")
    /\ IF CleanupGuard(cleanup_required, venv_created)
       THEN Goto2("cu_exists")
       ELSE Return
    /\ UNCHANGED <<cleanup_required, venv_created, dir, dir0, pdf0, answer, scriptsCreated, log, doc, pdf, script, child,
                   pkg, exc, exitCode, outcome, sigints, cleanupCalls, rmAttempts,
                   rmFailed, started>>

\* line 421: os.path.exists(VENV_DIR)
CuExists ==
    /\ InCleanup("cu_exists")
    /\ IF dir # "none"
       THEN Goto2("cu_rmtree") /\ UNCHANGED venv_created
       ELSE Return /\ venv_created' = FlagAfterTeardown(venv_created)
    /\ UNCHANGED <<cleanup_required, dir, dir0, pdf0, answer, scriptsCreated, log, doc, pdf, script, child,
                   pkg, exc, exitCode, outcome, sigints, cleanupCalls, rmAttempts,
                   rmFailed, started>>

\* line 423: shutil.rmtree(VENV_DIR) is called
CuRmtree ==
    /\ InCleanup("cu_rmtree")
    /\ rmAttempts' = rmAttempts + 1
    /\ Goto2("cu_removing")
    /\ UNCHANGED <<cleanup_required, venv_created, dir, dir0, pdf0, answer, scriptsCreated, log, doc, pdf, script, child,
                   pkg, exc, exitCode, outcome, sigints, cleanupCalls, rmFailed,
                   started>>

\* lines 423-427: rmtree finishes, or raises and the warning is printed.  It
\* cannot succeed on a directory that is gone, and what a failed removal leaves
\* of a built environment is the whole of it or a part.
CuRemoving ==
    /\ InCleanup("cu_removing")
    /\ \E ok \in BOOLEAN :
         IF ok /\ dir # "none"
         THEN dir' = "none" /\ UNCHANGED rmFailed
         ELSE /\ rmFailed' = TRUE
              /\ dir' \in (IF dir = "venv" THEN {"venv", "partial"} ELSE {dir})
    /\ venv_created' = FlagAfterTeardown(venv_created)
    /\ Return
    /\ UNCHANGED <<cleanup_required, dir0, pdf0, answer, scriptsCreated, log, doc, pdf, script, child,
                   pkg, exc, exitCode, outcome, sigints, cleanupCalls, rmAttempts,
                   started>>

----------------------------------------------------------------------------
\* signal_handler(), lines 61-67

\* SIGINT arrives: the handler starts on top of whatever was running and
\* calls cleanup_environment (line 65)
Sigint ==
    /\ ~Done
    /\ sigints < MaxSigints
    /\ sigints' = sigints + 1
    /\ stack' = Append(stack, Frame("cu_guard", "h_exit"))
    /\ cleanupCalls' = cleanupCalls + 1
    /\ UNCHANGED <<cleanup_required, venv_created, dir, dir0, pdf0, answer, scriptsCreated, log, doc, pdf, script, child,
                   pkg, exc, exitCode, outcome, rmAttempts, rmFailed, started>>

\* does SystemExit raised at main's position p pass through the finally
\* clause of convert_markdown_to_pdf (lines 402-411)?
InConvertTry(p) == p = "wait_conv"

\* line 67: sys.exit(0) raises SystemExit through every interrupted frame.
\* No except clause catches it (lines 116-128, 149, 425, 492-500 name
\* Exception subclasses); subprocess.run kills the child it was waiting for.
HandlerExit ==
    /\ Len(stack) > 1
    /\ Top.pc = "h_exit"
    /\ child' = NoChild
    /\ IF InConvertTry(Main.pc)
       THEN /\ stack' = <<Frame("fin_unlink", NoRet)>>
            /\ exc' = "SystemExit"
            /\ UNCHANGED <<exitCode, cleanupCalls>>
       ELSE IF InMainTry(Main)
       THEN SysExitInMain("signal_handler") /\ UNCHANGED exc
       ELSE Exit(ExitArg("signal_handler")) /\ UNCHANGED <<exc, cleanupCalls>>
    /\ UNCHANGED <<cleanup_required, venv_created, dir, dir0, pdf0, answer, scriptsCreated, log, doc, pdf, script,
                   pkg, outcome, sigints, rmAttempts, rmFailed, started>>

----------------------------------------------------------------------------
\* the subprocess

\* python -m venv creates VENV_DIR, or, without --clear, builds into what is
\* already there ("mixed": the new environment among the old files); pip,
\* writing into an environment that was removed under it, makes the directory
\* again
ChildWrites ==
    /\ child.st = "running"
    /\ \/ child.cmd \in {"venv", "pip", "pkg"} /\ dir = "none" /\ dir' = "partial"
       \/ child.cmd = "venv" /\ dir = "stale" /\ dir' = "mixed"
    /\ UNCHANGED <<stack, cleanup_required, venv_created, dir0, pdf0, answer, scriptsCreated, log, doc, pdf, script, child,
                   pkg, exc, exitCode, outcome, sigints, cleanupCalls, rmAttempts,
                   rmFailed, started>>

\* the nested script, line 383: write_pdf(output_filepath) opens the output
\* path for writing once the document is rendered; the file is complete only
\* when the script has ended
ChildOpensTarget ==
    /\ child.st = "running"
    /\ child.cmd = "conv"
    /\ pdf # "partial"
    /\ pdf' = "partial"
    /\ UNCHANGED <<stack, cleanup_required, venv_created, dir, dir0, pdf0, answer, scriptsCreated, log, doc, script, child,
                   pkg, exc, exitCode, outcome, sigints, cleanupCalls, rmAttempts,
                   rmFailed, started>>

\* the child ends with status 0 or not (the nested script: not, when any of its
\* stages raised, lines 389-394)
ChildExits ==
    /\ child.st = "running"
    /\ \E ok \in BOOLEAN :
         /\ ok /\ child.cmd = "venv" => dir \in {"partial", "mixed"}
         /\ ok /\ child.cmd \in {"pip", "pkg"} => dir \in {"venv", "mixed"}
         /\ ok /\ child.cmd = "conv" => pdf = "partial"
         /\ child' = [child EXCEPT !.st = IF ok THEN "ok" ELSE "fail"]
         /\ dir' = IF ok /\ child.cmd = "venv" /\ dir = "partial" THEN "venv" ELSE dir
         /\ pdf' = IF ok /\ child.cmd = "conv" THEN "new" ELSE pdf
    /\ UNCHANGED <<stack, cleanup_required, venv_created, dir0, pdf0, answer, scriptsCreated, log, doc, script,
                   pkg, exc, exitCode, outcome, sigints, cleanupCalls, rmAttempts,
                   rmFailed, started>>

----------------------------------------------------------------------------

Next ==
    \/ CheckArgs \/ Validate \/ Derive \/ AskOverwrite
    \/ SysCheck \/ WaitDpkg \/ AskContinue \/ Arm
    \/ CveExists \/ CveRmtree \/ RunVenv \/ WaitVenv \/ SetCreated
    \/ RunPip \/ WaitPip \/ RunPkg \/ WaitPkg
    \/ MkScript \/ RunConv \/ WaitConv \/ FinUnlink
    \/ Step6 \/ Report \/ ExcExit
    \/ CuGuard \/ CuExists \/ CuRmtree \/ CuRemoving
    \/ Sigint \/ HandlerExit
    \/ ChildWrites \/ ChildOpensTarget \/ ChildExits

Spec == Init /\ [][Next]_vars

TypeOK ==
    /\ Len(stack) \in 1..(MaxSigints + 1)
    /\ cleanup_required \in BOOLEAN /\ venv_created \in BOOLEAN
    /\ dir \in {"none", "stale", "partial", "mixed", "venv"}
    /\ pdf \in {"none", "old", "partial", "new"}
    /\ pdf0 \in {"none", "old"}
    /\ answer \in Responses \cup {"-"}
    /\ scriptsCreated \in 0..1
    /\ script \in BOOLEAN
    /\ pkg \in 1..NumPackages
    /\ exitCode \in {<<>>, <<0>>, <<1>>}
    /\ rmFailed \in BOOLEAN

----------------------------------------------------------------------------
\* convert_markdown_to_pdf(), lines 271-302: the text of the conversion script.
\* A string is a sequence of pieces; each brace is a piece of its own, a word
\* or a run of other text is one piece.

\* longest intermediate markup examined, in pieces
MaxMarkupLen == 5

\* what md.render may hand over: braces, the word of the placeholder, other text
Pieces == {"{", "}", "content", "<p>"}
Markups == UNION {[1..n -> Pieces] : n \in 0..MaxMarkupLen}

\* values of md_path: braces in a file name are braces in the script
Paths == {<<"notes.md">>, <<"{", "content", "}">>, <<"{", "{", "content", "}", "}">>}

\* bug variant of TemplateSrc: the placeholder written with two braces a side
TemplateSrc_DoubleBrace ==
    <<"<body>", "\n", "{", "{", "content", "}", "}", "\n", "</body>">>

\* lines 291-300, as written inside the f-string: html_template's literal
TemplateSrc ==
    <<"<body>", "\n", "{", "{", "{", "{", "content", "}", "}", "}", "}", "\n",
      "</body>">>

\* bug variant of SearchSrc: the search argument written with two braces a side
SearchSrc_DoubleBrace == <<"{", "{", "content", "}", "}">>

\* line 302, as written inside the f-string: the first argument of replace
SearchSrc == <<"{", "{", "{", "{", "content", "}", "}", "}", "}">>

\* line 281, as written inside the f-string: r'{md_path}'
PathSrc == <<"{", "md_path", "}">>

\* the value of a name in a replacement field
Lookup(env, name) == IF name \in DOMAIN env THEN env[name] ELSE <<"NameError">>

\* evaluation of an f-string: {{ gives {, }} gives }, {name} gives the value of
\* name (which is not scanned again), a single } is a syntax error
RECURSIVE FStr(_, _)
FStr(s, env) ==
    IF s = <<>> THEN <<>>
    ELSE IF Len(s) >= 2 /\ s[1] = "{" /\ s[2] = "{"
         THEN <<"{">> \o FStr(SubSeq(s, 3, Len(s)), env)
    ELSE IF Len(s) >= 2 /\ s[1] = "}" /\ s[2] = "}"
         THEN <<"}">> \o FStr(SubSeq(s, 3, Len(s)), env)
    ELSE IF Len(s) >= 3 /\ s[1] = "{" /\ s[3] = "}"
         THEN Lookup(env, s[2]) \o FStr(SubSeq(s, 4, Len(s)), env)
    ELSE IF s[1] \in {"{", "}"} THEN <<"SyntaxError">>
    ELSE <<s[1]>> \o FStr(Tail(s), env)

\* s begins with t
StartsWith(s, t) == Len(s) >= Len(t) /\ SubSeq(s, 1, Len(t)) = t

\* str.replace(old, new): every occurrence of old, left to right, without
\* overlap and without scanning what was put in
RECURSIVE Replace(_, _, _)
Replace(s, old, new) ==
    IF s = <<>> \/ old = <<>> THEN s
    ELSE IF StartsWith(s, old)
         THEN new \o Replace(SubSeq(s, Len(old) + 1, Len(s)), old, new)
    ELSE <<s[1]>> \o Replace(Tail(s), old, new)

\* the compose stage before the script is built, for one path and one markup
DocSource(path, markup) ==
    [phase |-> "source", md_path |-> path, html_content |-> markup,
     md_filepath |-> <<>>, html_template |-> <<>>, search |-> <<>>,
     full_html |-> <<>>]

\* main has provisioned the environment and stands at line 481; the script
\* text is about to be built for some path and some markup
InitCompose ==
    /\ stack = <<Frame("mk_script", NoRet)>>
    /\ cleanup_required = TRUE
    /\ venv_created = TRUE
    /\ dir = "venv"
    /\ dir0 = "none"
    /\ pdf = "none"
    /\ script = FALSE
    /\ child = NoChild
    /\ pkg = NumPackages
    /\ exc = "none"
    /\ exitCode = <<>>
    /\ outcome = "none"
    /\ sigints = 0
    /\ cleanupCalls = 0
    /\ rmAttempts = 0
    /\ rmFailed = FALSE
    /\ started = NumPackages + 2
    /\ pdf0 = "none"
    /\ answer = "-"
    /\ scriptsCreated = 0
    /\ log = <<[step |-> "venv", st |-> "ok"], [step |-> "pip", st |-> "ok"]>>
                \o [i \in 1..NumPackages |->
                       [step |-> REQUIRED_PACKAGES[i], st |-> "ok"]]
    /\ \E path \in Paths, markup \in Markups : doc = DocSource(path, markup)

\* lines 271-395: the f-string is evaluated; the script now holds the path
\* literal, the template literal and the search argument as they will run
Materialize ==
    /\ doc # NoDoc
    /\ doc.phase = "source"
    /\ LET env == [md_path |-> doc.md_path]
       IN  doc' = [doc EXCEPT !.phase = "materialized",
                              !.md_filepath = FStr(PathSrc, env),
                              !.html_template = FStr(TemplateSrc, env),
                              !.search = FStr(SearchSrc, env)]
    /\ UNCHANGED <<stack, cleanup_required, venv_created, dir, dir0, pdf, script,
                   child, pkg, exc, exitCode, outcome, sigints, cleanupCalls,
                   rmAttempts, rmFailed, started, pdf0, answer, scriptsCreated,
                   log>>

\* line 302 of the script as it runs:
\* full_html = html_template.replace(<search>, html_content)
ComposeDocument ==
    /\ doc # NoDoc
    /\ doc.phase = "materialized"
    /\ doc' = [doc EXCEPT !.phase = "composed",
                          !.full_html = Replace(doc.html_template, doc.search,
                                                doc.html_content)]
    /\ UNCHANGED <<stack, cleanup_required, venv_created, dir, dir0, pdf, script,
                   child, pkg, exc, exitCode, outcome, sigints, cleanupCalls,
                   rmAttempts, rmFailed, started, pdf0, answer, scriptsCreated,
                   log>>

NextCompose == Materialize \/ ComposeDocument

SpecCompose == InitCompose /\ [][NextCompose]_vars

----------------------------------------------------------------------------
\* Properties

ArmedErrors == {"stale_rm_error", "venv_error", "pip_error", "pkg_error",
                "conv_error", "report_error"}
InstallErrors == {"pip_error", "pkg_error"}
ZeroOutcomes == {"success", "help", "overwrite_declined"}
FailureOutcomes == {"input_error", "continue_declined"} \cup ArmedErrors

\* a SIGINT was delivered after line 469 had run
InterruptedArmed == sigints > 0 /\ cleanup_required

\* C1 (as claimed): whatever the failure point - bad input, a failed venv
\* creation, a failed pip upgrade or install, a failed conversion, a SIGINT
\* after arming - .md2pdf_venv does not exist when the process has ended,
\* unless a removal by cleanup_environment failed.  Stated for the runs that
\* start with no directory there.
C1_CleanupTotality ==
    (Done /\ dir0 = "none" /\ ~rmFailed
          /\ (outcome \in {"input_error"} \cup ArmedErrors \/ InterruptedArmed))
        => dir = "none"

\* C2: after a validation failure cleanup_required is still false, VENV_DIR is
\* as it was at the start (never created, never removed, a stale one kept),
\* and no subprocess was started.
C2_FastExitPurity ==
    outcome = "input_error" =>
        /\ ~cleanup_required
        /\ dir = dir0
        /\ rmAttempts = 0
        /\ started = 0
        /\ child = NoChild

\* C2 witness: a run ended by a validation failure, its except clause having
\* called cleanup_environment with a stale directory present.
C2_Witness ==
    /\ Done /\ outcome = "input_error" /\ exitCode = <<1>>
    /\ dir0 = "stale" /\ cleanupCalls >= 1

\* C3 (as claimed): an error raised after arming is caught in main, has
\* cleanup_environment called exactly once in the whole run and ends the
\* process with status 1; an error before arming performs no teardown.
\* Stated for the runs that receive no SIGINT.
C3_ErrorAfterArming ==
    (Done /\ sigints = 0) =>
        /\ outcome \in ArmedErrors => cleanupCalls = 1 /\ exitCode = <<1>>
        /\ outcome = "input_error" => rmAttempts = 0 /\ dir = dir0

\* C4 (as claimed): cleanup_environment calls shutil.rmtree at most once per run.
C4_AtMostOneRemoval == rmAttempts <= 1

\* C5: a SIGINT starts signal_handler, which calls cleanup_environment; from
\* then on main never moves to a further step (it only unwinds through the
\* finally clause of convert_markdown_to_pdf and ends), no subprocess is
\* started, nothing is armed, provisioned, written or reported, and the
\* process ends with the status signal_handler gave to sys.exit.
C5_NoResumeAfterSigint ==
    [][ /\ sigints' > sigints =>
             /\ cleanupCalls' = cleanupCalls + 1
             /\ stack' = Append(stack, Frame("cu_guard", "h_exit"))
        /\ sigints > 0 =>
             /\ Main'.pc \in {Main.pc, "fin_unlink", "done"}
             /\ started' = started
             /\ outcome' = outcome
             /\ cleanup_required' = cleanup_required
             /\ venv_created' = venv_created
             /\ script' => script
             /\ Done' => exitCode' = <<ExitArg("signal_handler")>>
      ]_vars

\* C5 witness: a run interrupted during the pip upgrade has ended: no
\* package install was started and nothing was reported.
C5_Witness ==
    /\ Done /\ sigints > 0 /\ venv_created
    /\ started = 2 /\ pkg = 1 /\ outcome = "none" /\ exitCode = <<0>>

C7_InterruptNonZero == (Done /\ sigints > 0) => exitCode # <<0>>

\* C7 (amended): a process ended by a SIGINT exits with status 0.
C7_InterruptExitsZero == (Done /\ sigints > 0) => exitCode = <<0>>

\* C7 witness: an interrupted run whose handler removed the environment.
C7_Witness ==
    /\ Done /\ sigints = 1 /\ rmAttempts = 1 /\ ~rmFailed /\ dir = "none"
    /\ outcome = "none"

\* a step in which the top frame returns from cleanup_environment
CleanupReturns(from) ==
    /\ Top.pc \in from
    /\ Len(stack') = Len(stack)
    /\ Top'.pc = Top.ret

\* C8 (as claimed): cleanup_environment goes on to shutil.rmtree exactly when
\* cleanup_required and venv_created are both true; otherwise it returns at
\* once and leaves the directory and both flags as they were.
C8_TeardownGuard ==
    [][ /\ rmAttempts' > rmAttempts => (cleanup_required /\ venv_created)
        /\ CleanupReturns({"cu_guard", "cu_exists"}) =>
             /\ ~(cleanup_required /\ venv_created)
             /\ UNCHANGED <<dir, cleanup_required, venv_created>>
      ]_vars

\* C9 (as claimed): when cleanup_environment returns from a removal, whether
\* it succeeded or failed, venv_created is false.
C9_FlagClearedByTeardown ==
    [][ CleanupReturns({"cu_removing"}) => ~venv_created' ]_vars

C11_OverwriteGating ==
    /\ answer \notin {"-", "y", "Y"}
         => /\ Done /\ exitCode = <<0>> /\ outcome = "overwrite_declined"
            /\ pdf = "old" /\ pdf0 = "old"
            /\ ~cleanup_required /\ ~venv_created
            /\ dir = dir0 /\ started = 0 /\ log = <<>> /\ scriptsCreated = 0
    /\ answer \in {"y", "Y"} => outcome # "overwrite_declined"
    /\ (pdf0 = "old" /\ outcome = "success") => (answer \in {"y", "Y"} /\ pdf = "new")

\* the prompt was answered "YES" over a stale directory, and the process has ended
C11_Witness == Done /\ answer = "YES" /\ dir0 = "stale" /\ exitCode = <<0>>

\* C12: one call of convert_markdown_to_pdf creates exactly one temporary
\* script, and once the nested conversion process has exited - with status zero
\* or not - and the call has been left, the script is gone.  The script exists
\* only between its creation and the finally clause, or after a run that a
\* SIGINT ended.
C12_TempScriptLifecycle ==
    /\ scriptsCreated <= 1
    /\ (script \/ child.cmd = "conv"
            \/ Main.pc \in {"run_conv", "wait_conv", "fin_unlink", "step6", "report"})
         => scriptsCreated = 1
    /\ script => \/ Main.pc \in {"run_conv", "wait_conv", "fin_unlink"}
                 \/ (Done /\ sigints > 0)

\* a conversion that exited non-zero, uninterrupted, has ended the run
C12_Witness ==
    Done /\ outcome = "conv_error" /\ sigints = 0 /\ scriptsCreated = 1 /\ ~script

\* C13 (as claimed): the target path is written by the render stage of the
\* nested script only, and only on full success: when the nested conversion
\* failed, no file is at the target path at the end of the run unless one was
\* there before the run.  Stated for the runs no SIGINT interrupts.
C13_NoPartialOutput ==
    /\ pdf # pdf0 => (child.cmd = "conv" \/ scriptsCreated = 1)
    /\ (Done /\ sigints = 0 /\ outcome = "conv_error" /\ pdf0 = "none")
         => pdf = "none"

\* C14: create_virtual_environment over a directory left by an earlier
\* provisioning first removes that directory completely and only then has
\* python -m venv create a fresh one: the creation never runs over an existing
\* directory, and the environment it yields holds nothing of the earlier one.
C14_IdempotentProvisioning ==
    /\ dir # "mixed"
    /\ child.cmd = "venv" => dir \in {"none", "partial", "venv"}
    /\ (dir0 = "stale" /\ \E i \in 1..Len(log) : log[i].step = "venv")
         => (log[1] = [step |-> "rmtree", st |-> "ok"] /\ log[2].step = "venv")
    /\ Main.pc = "set_created" => dir = "venv"

\* a run that found a stale directory has its own environment in place
C14_Witness == dir0 = "stale" /\ Main.pc = "set_created" /\ dir = "venv"

\* the placeholder token: two opening braces, the word content, two closing
PlaceholderToken == <<"{", "{", "content", "}", "}">>

\* the positions at which t occurs in s
Occurrences(s, t) ==
    {i \in 1..Len(s) : StartsWith(SubSeq(s, i, Len(s)), t)}

\* the materialized template before and after its placeholder
TemplateBefore ==
    LET i == CHOOSE k \in Occurrences(doc.html_template, PlaceholderToken) : TRUE
    IN  SubSeq(doc.html_template, 1, i - 1)
TemplateAfter ==
    LET i == CHOOSE k \in Occurrences(doc.html_template, PlaceholderToken) : TRUE
    IN  SubSeq(doc.html_template, i + Len(PlaceholderToken), Len(doc.html_template))

\* C15: for every intermediate markup in which the placeholder token does not
\* occur - markup with literal braces included - the composed document is the
\* template text before the placeholder, then the markup, then the template
\* text after the placeholder: the markup is there once, at the place of the
\* placeholder, and no placeholder token is left.
C15_SubstitutionExact ==
    (doc.phase = "composed" /\ Occurrences(doc.html_content, PlaceholderToken) = {})
        => /\ Cardinality(Occurrences(doc.html_template, PlaceholderToken)) = 1
           /\ doc.full_html = TemplateBefore \o doc.html_content \o TemplateAfter
           /\ Occurrences(doc.full_html, PlaceholderToken) = {}

\* a markup of braces around the word, not the token itself, has been composed
C15_Witness ==
    /\ doc.phase = "composed"
    /\ doc.html_content = <<"{", "content", "}", "}", "<p>">>
    /\ doc.full_html = <<"<body>", "\n", "{", "content", "}", "}", "<p>", "\n",
                         "</body>">>

\* C16: once the outer f-string is evaluated, the script holds the placeholder
\* as one and the same literal token in the template and in the search
\* argument of replace - four braces a side in the source, two a side in the
\* script - and the template holds that token exactly once, whatever the path
\* put into the script.
C16_MaterializedToken ==
    doc.phase \in {"materialized", "composed"}
        => /\ doc.search = PlaceholderToken
           /\ Cardinality(Occurrences(doc.html_template, doc.search)) = 1
           /\ doc.md_filepath = doc.md_path

\* the script was built for a file whose name is the token
C16_Witness ==
    /\ doc.phase = "materialized"
    /\ doc.md_path = PlaceholderToken
    /\ doc.html_template =
         <<"<body>", "\n", "{", "{", "content", "}", "}", "\n", "</body>">>

\* the steps of provisioning and conversion, in the order of lines 471-481
StepOrder == <<"venv", "pip">> \o REQUIRED_PACKAGES \o <<"conv">>

\* the log without the removal of a stale directory at its head
StepsAfterRemoval ==
    IF log # <<>> /\ log[1].step = "rmtree" THEN Tail(log) ELSE log

\* C17: the provisioning steps run in one order - removal of a stale
\* directory if there is one, python -m venv, the pip upgrade, then the
\* packages of REQUIRED_PACKAGES as declared, then the conversion; a step
\* begins only when the one before it has ended with success, and a step that
\* failed is the last one of the run.
C17_ProvisioningOrder ==
    /\ Len(StepsAfterRemoval) <= Len(StepOrder)
    /\ \A i \in 1..Len(StepsAfterRemoval) :
         StepsAfterRemoval[i].step = StepOrder[i]
    /\ \A i \in 1..Len(log) : i < Len(log) => log[i].st = "ok"
    /\ log # <<>> => (log[1].step = "rmtree" <=> dir0 = "stale")
    /\ child.cmd \in {"venv", "pip", "pkg", "conv"}
         => log[Len(log)].st = "begun"

\* over a stale directory the second package failed to install
C17_Witness ==
    /\ Done /\ dir0 = "stale" /\ Len(log) = 5
    /\ log[5] = [step |-> REQUIRED_PACKAGES[2], st |-> "fail"]

\* where a frame of main stands among the phases of lines 450-506
PhaseOf(f) ==
    LET p == IF f.pc \in {"cu_guard", "cu_exists", "cu_rmtree", "cu_removing"}
             THEN f.ret ELSE f.pc
    IN  CASE p \in {"argv", "validate"} -> 1
          [] p = "derive" -> 2
          [] p = "ask_overwrite" -> 3
          [] p \in {"sys_check", "wait_dpkg", "ask_continue"} -> 4
          [] p = "arm" -> 5
          [] p \in {"cve_exists", "cve_rmtree", "run_venv", "wait_venv",
                    "set_created", "run_pip", "wait_pip", "run_pkg", "wait_pkg"} -> 6
          [] p \in {"mk_script", "run_conv", "wait_conv", "fin_unlink"} -> 7
          [] p = "step6" -> 8
          [] p = "report" -> 9
          [] OTHER -> 10

\* C18: main goes through validation, derivation of the output path, the
\* overwrite prompt, arming, provisioning, conversion, teardown and the report
\* in that order and never back; cleanup_required is false before arming and
\* true from arming on, set once and never cleared; and while it is false the
\* directory .md2pdf_venv is neither created nor removed and no temporary
\* script is created.
C18_OrchestrationOrder ==
    [][/\ PhaseOf(Main') >= PhaseOf(Main)
       /\ PhaseOf(Main) <= 5 => ~cleanup_required
       /\ PhaseOf(Main) \in 6..9 => cleanup_required
       /\ cleanup_required => cleanup_required'
       /\ ~cleanup_required
            => (dir' = dir /\ script' = script /\ scriptsCreated' = scriptsCreated)
       /\ outcome' = "success"
            => (cleanup_required /\ cleanupCalls >= 1 /\ scriptsCreated = 1
                /\ Len(log) >= Len(StepOrder))]_vars

\* a run over a stale directory has gone through every phase and ended well
C18_Witness ==
    /\ Done /\ outcome = "success" /\ dir0 = "stale" /\ pdf0 = "old"
    /\ cleanup_required /\ exitCode = <<0>>

\* C19 (as claimed): in every state the flag and the disk agree - when
\* venv_created is true .md2pdf_venv exists, when it is false no such
\* directory exists - during creation and after teardown included.  Stated
\* for the runs that start with no directory there.
C19_FlagMatchesDisk ==
    dir0 = "none" => (venv_created <=> dir # "none")

\* some invocation of cleanup_environment is inside shutil.rmtree
Removing == \E i \in 1..Len(stack) : stack[i].pc = "cu_removing"

\* C20 (as claimed): .md2pdf_venv is never being removed while a subprocess
\* that uses it - python -m venv, pip, the nested conversion - is still
\* running; a removal by cleanup_environment begins only when the child of
\* run_command has exited, also when SIGINT arrives while run_command waits.
C20_NoRemovalUnderChild ==
    Removing => ~(child.cmd \in {"venv", "pip", "pkg", "conv"} /\ child.st = "running")

\* C21 (as claimed): when a SIGINT arrives at any point after the temporary
\* conversion script was created - before run_command is entered, while the
\* nested process runs, or while the finally clause removes the script - the
\* script is not on disk when the process has ended.
C21_NoScriptLeakOnSigint ==
    (Done /\ sigints > 0 /\ scriptsCreated = 1) => ~script

====
